---- MODULE Spec2Model ----
(***************************************************************************)
(* Model of the recipe resolution pipeline of food-eat:                    *)
(*   src/src/mastra/tools/recipe-tool.ts  (recipeTool.execute and helpers) *)
(*   src/unnamed/part_010                 (/api/recipes Pages function)    *)
(*   src/src/mastra/workflows/food-tool-only.ts (tool-only workflow)       *)
(* A text is a sequence of one-character strings.  A recipe, a summary or  *)
(* a detail record is represented by its idMeal.  Every await on the       *)
(* provider is one action whose input is the provider's response.          *)
(***************************************************************************)
EXTENDS Integers, Sequences, FiniteSets, TLC

VARIABLES
  entry,          \* entry point of the request: "none", "tool", "http", "workflow"
  context,        \* the context object handed to recipeTool.execute
  pc,             \* position of the request: idle, filter, search, lookup, random, done
  caught,         \* TRUE once control is inside execute's catch block
  filterCalls,    \* filter.php calls issued, in order: [kind, term]
  searchCalls,    \* search.php calls issued, in order: the term
  summaries,      \* execute's `summaries` (idMeal of each summary)
  filterResp,     \* how the filter call completed: none, throw, malformed, empty, list
  searchResp,     \* how the searchByName call completed (same values)
  lookups,        \* lookup.php calls issued, in order: the id asked
  lookupResps,    \* how each completed lookup call completed: throw, null, found
  details,        \* fetchDetailsFor's `details` (idMeal of each found detail)
  results,        \* randomSelection's `results` (idMeal of each meal)
  tries,          \* randomSelection's `tries`
  randomGaveItem, \* some random.php response carried a meal with an id
  randomAllThrew, \* every random.php call so far has thrown
  recipes,        \* recipes of the returned result (id of each recipe)
  via,            \* return statement that produced the result
  source,         \* `source` of the returned result
  outcome,        \* "none", "ok" (result returned), "rejected", "thrown"
  status,         \* HTTP status of the response (0 when there is none)
  meal,           \* extractIngredients: the detail's 20 ingredient slots
  items,          \* extractIngredients: the returned list
  extracted,      \* extractIngredients has run
  cancelled,      \* the caller has cancelled the request
  raw,            \* recipe mapping: the provider's detail record
  normalized,     \* recipe mapping: [done, recipe], the mapped recipe
  request,        \* provider client: [fn, term, payload] of the call
  reply,          \* provider client: [t, val], how the call completed
  apiKey,         \* translator: an OpenAI API key is configured
  cache,          \* Translator.cache: <<language, text>> -> translation
  associationCache, \* Translator.associationCache: <<type, text>> -> terms
  translationCache, \* translationCache of translateText: key -> translation
  backend,        \* answers a deterministic backend has given: request -> answer
  exp,            \* translateRecipeInputEnhanced: [phase, input, enable, field, assoc]
  flights,        \* translate calls of the pending Promise.all: [text, state, value, answer]
  expanded,       \* result of translateRecipeInputEnhanced, field by field
  last,           \* the last completed translator call: [n, fn, kind, text, answer, value]
  remoteCalls,    \* chat completion requests sent so far
  single,         \* translateSingleRecipe: [phase, recipe, language, result]
  batch,          \* translateRecipes: [phase, n, i, calls, results]
  norm,           \* the worker's normalizeChinese: [done, input, output]
  worker,         \* the worker's getRecipes: [phase, calls, firstVia, recipes, status]
  writes          \* translateSingleRecipe: its cache.set calls, in order: [key, value, by]

vars == <<entry, context, pc, caught, filterCalls, searchCalls, summaries,
          filterResp, searchResp, lookups, lookupResps, details, results,
          tries, randomGaveItem,
          randomAllThrew, recipes, via, source, outcome, status,
          meal, items, extracted, cancelled, raw, normalized, request,
          reply, apiKey, cache, associationCache, translationCache, backend,
          exp, flights, expanded, last, remoteCalls, single, batch,
          norm, worker, writes>>

pipelineVars == <<entry, context, pc, caught, filterCalls, searchCalls,
                  summaries, filterResp, searchResp, lookups, lookupResps,
                  details, results, tries,
                  randomGaveItem, randomAllThrew, recipes, via, source,
                  outcome, status>>

extractVars == <<meal, items, extracted>>

normalizeVars == <<raw, normalized>>

clientVars == <<request, reply>>

translatorVars ==
  <<apiKey, cache, associationCache, translationCache, backend, exp, flights,
    expanded, last, remoteCalls>>

appVars == <<single, batch, norm, worker, writes>>

\* what no step of execute writes
sideVars ==
  <<extractVars, cancelled, normalizeVars, clientVars, translatorVars,
    appVars>>

----------------------------------------------------------------------------
(* Bounds of the model *)

MaxSumm == 2        \* longest list a filter or search response carries
NumIds == 2         \* distinct ids the filter, search and lookup endpoints use
MaxFilled == 2      \* ingredient slots of a detail that are not absent

----------------------------------------------------------------------------
(* Texts and optional values *)

Undefined == [some |-> FALSE, val |-> <<>>]
Str(s) == [some |-> TRUE, val |-> s]
NoNumber == [some |-> FALSE, val |-> 0]
Num(n) == [some |-> TRUE, val |-> n]

Min(a, b) == IF a <= b THEN a ELSE b
Max(a, b) == IF a >= b THEN a ELSE b

\* String.prototype.trim
RECURSIVE TrimLeft(_)
TrimLeft(s) == IF s # <<>> /\ Head(s) = " " THEN TrimLeft(Tail(s)) ELSE s

RECURSIVE TrimRight(_)
TrimRight(s) ==
  IF s # <<>> /\ s[Len(s)] = " " THEN TrimRight(SubSeq(s, 1, Len(s) - 1)) ELSE s

Trim(s) == TrimRight(TrimLeft(s))

\* s.split(',')[0]
RECURSIVE SplitFirst(_)
SplitFirst(s) ==
  IF s = <<>> \/ Head(s) = "," THEN <<>> ELSE <<Head(s)>> \o SplitFirst(Tail(s))

\* variant: the slice keeps one element too many
SliceOneMore(s, n) == SubSeq(s, 1, Min(Max(n, 0) + 1, Len(s)))

\* arr.slice(0, n)
Slice(s, n) ==
  IF n >= 0 THEN SubSeq(s, 1, Min(n, Len(s)))
  ELSE SubSeq(s, 1, Max(Len(s) + n, 0))

\* limit ?? 5
DefaultLimit == 5

\* variant: an absent limit is replaced by one more than the default
CoalesceOneMore(limit) == IF limit.some THEN limit.val ELSE DefaultLimit + 1

Coalesce(limit) == IF limit.some THEN limit.val ELSE DefaultLimit

\* variant: the field is tested without trim()
GivenUntrimmed(x) == x.some /\ x.val # <<>>

\* `x && x.trim()` of a string | undefined
Given(x) == x.some /\ Trim(x.val) # <<>>

----------------------------------------------------------------------------
(* Inputs: queries, limits, provider responses *)

tBlank == <<" ">>
tA == <<"a">>
tAB == <<" ", "a", ",", "b">>
tC == <<"c", " ">>
tU == <<"u">>

Query(i, c, u) == [ingredients |-> i, category |-> c, cuisine |-> u]

Queries ==
  { Query(Undefined, Undefined, Undefined),
    Query(Str(tBlank), Str(<<>>), Str(tBlank)),
    Query(Str(tA), Undefined, Undefined),
    Query(Str(tA), Str(tC), Str(tU)),
    Query(Str(tAB), Str(tC), Undefined),
    Query(Undefined, Str(tC), Undefined),
    Query(Str(tBlank), Str(tC), Str(tU)),
    Query(Undefined, Undefined, Str(tU)),
    Query(Str(<<>>), Str(tBlank), Str(tU)) }

Entries == {"tool", "http", "workflow"}

LimitMin == 1
LimitMax == 10
ValidLimits == LimitMin..LimitMax

\* limits a caller may send: absent, in range, just below and just above
LimitsOf(e) ==
  IF e = "tool"
  THEN {NoNumber} \cup {Num(n) : n \in (LimitMin - 1)..(LimitMax + 1)}
  ELSE {NoNumber, Num(LimitMin - 1), Num(3), Num(LimitMax + 1)}

Ids == 1..NumIds

RECURSIVE SeqsUpTo(_, _)
SeqsUpTo(S, n) ==
  IF n = 0 THEN {<<>>}
  ELSE LET shorter == SeqsUpTo(S, n - 1)
       IN shorter \cup {Append(q, x) : q \in shorter, x \in S}

IdLists == SeqsUpTo(Ids, MaxSumm)

\* a filter.php / search.php exchange: fetch or resp.json() throws, the body
\* has no `meals` array, or `meals` is an array
ListResponses ==
  {[t |-> "throw", ids |-> <<>>], [t |-> "malformed", ids |-> <<>>]}
    \cup {[t |-> "list", ids |-> l] : l \in IdLists}

\* a lookup.php exchange: throws, meals[0] is absent, or a detail comes back
LookupResponses == {"throw", "null", "found"}

NoId == 0

Range(s) == {s[i] : i \in 1..Len(s)}

\* a random.php exchange: throws, carries no meal, or carries a meal whose
\* idMeal is empty (NoId), already held, or new (ids are named in the order
\* of their first appearance)
RandomResponses(held) ==
  {[t |-> "throw", id |-> NoId], [t |-> "empty", id |-> NoId]}
    \cup {[t |-> "meal", id |-> i] : i \in NoId..(Len(held) + 1)}

----------------------------------------------------------------------------
(* recipe-tool.ts *)

maxCount == 10
maxTries == 20
TheMealDB == "TheMealDB"

\* Array.isArray(json?.meals) ? json.meals : []
MealsOf(resp) == IF resp.t = "list" THEN resp.ids ELSE <<>>

\* variant: the category branch is tested before the ingredient branch
SelectKindCategoryFirst(ctx) ==
  IF Given(ctx.category) THEN "category"
  ELSE IF Given(ctx.ingredients) THEN "ingredient"
  ELSE IF Given(ctx.cuisine) THEN "cuisine"
  ELSE "none"

\* the if / else-if chain of execute
SelectKind(ctx) ==
  IF Given(ctx.ingredients) THEN "ingredient"
  ELSE IF Given(ctx.category) THEN "category"
  ELSE IF Given(ctx.cuisine) THEN "cuisine"
  ELSE "none"

\* variant: the whole ingredients text is the term
FilterTermWhole(ctx) ==
  CASE SelectKind(ctx) = "ingredient" -> Trim(ctx.ingredients.val)
    [] SelectKind(ctx) = "category" -> Trim(ctx.category.val)
    [] SelectKind(ctx) = "cuisine" -> Trim(ctx.cuisine.val)
    [] OTHER -> <<>>

\* the term passed to the filter and to searchByName
FilterTerm(ctx) ==
  CASE SelectKind(ctx) = "ingredient" -> Trim(SplitFirst(ctx.ingredients.val))
    [] SelectKind(ctx) = "category" -> Trim(ctx.category.val)
    [] SelectKind(ctx) = "cuisine" -> Trim(ctx.cuisine.val)
    [] OTHER -> <<>>

\* variant: every summary is looked up, the slice is forgotten
LookupIdsUnsliced(summ, limit) == summ

\* summaries.slice(0, limit ?? 5).map((m) => m.idMeal)
LookupIds(summ, limit) == Slice(summ, Coalesce(limit))

\* variant: every record is mapped, the slice is forgotten
NormalizedUnsliced(xs, limit) == xs

\* xs.slice(0, limit ?? 5).map(normalize)
Normalized(xs, limit) == Slice(xs, Coalesce(limit))

\* variant: the attempt cap is tested with <= instead of <
RandomContinuesOffByOne(res, n) == Len(res) < maxCount /\ n <= maxTries

\* while (results.length < maxCount && tries < maxTries)
RandomContinues(res, n) == Len(res) < maxCount /\ n < maxTries

\* variant: the duplicate test has lost its negation
RandomPushInverted(res, resp) ==
  IF resp.t = "meal" /\ resp.id # NoId /\ resp.id \in Range(res)
  THEN Append(res, resp.id)
  ELSE res

\* variant: the meal is pushed without looking for its id in results
RandomPushUnchecked(res, resp) ==
  IF resp.t = "meal" /\ resp.id # NoId THEN Append(res, resp.id) ELSE res

\* if (meal && meal.idMeal) { if (!results.find(...)) results.push(meal) }
RandomPush(res, resp) ==
  IF resp.t = "meal" /\ resp.id # NoId /\ resp.id \notin Range(res)
  THEN Append(res, resp.id)
  ELSE res

\* variant: execute has no catch block
CatchRethrows == "rethrow"

\* the catch block of execute: where a throw inside the try block leads
CatchTarget == "random"

\* variant: the random.php call is not wrapped in try / catch
RandomErrorEscapes == FALSE

\* try { ... } catch (e) { } around each random.php call
SwallowsRandomError == TRUE

\* variant: the client functions catch their own errors and return []
EscapesNever(resp) == FALSE

\* a rejected fetch or resp.json() leaves filterBy* / searchByName and, the
\* call being awaited inside the try block, is thrown there
Escapes(resp) == resp.t = "throw"

\* how a filter.php / search.php exchange completed
KindOf(resp) == IF resp.t = "list" /\ resp.ids = <<>> THEN "empty" ELSE resp.t

----------------------------------------------------------------------------
(* Entry points: the tool's input schema, the /api/recipes handler and the  *)
(* tool-only workflow                                                       *)

\* z.number().min(1).max(10) ... optional
SchemaAccepts(limit) == (~limit.some) \/ limit.val \in ValidLimits

\* truthiness of a string | undefined
Truthy(x) == x.some /\ x.val # <<>>

\* variant: the handler has no validation of its input
LimitOnlyNever(q, limit) == FALSE

\* if (!ingredients && !category && !cuisine && limit !== undefined)
LimitOnly(q, limit) ==
  (~Truthy(q.ingredients)) /\ (~Truthy(q.category)) /\ (~Truthy(q.cuisine))
    /\ limit.some

IsSeparator(c) == c \in {",", " "}

\* input.ingredients.split(/[,\s]+/).map(trim).filter(Boolean)
RECURSIVE Tokens(_, _)
Tokens(s, cur) ==
  IF s = <<>> THEN (IF cur = <<>> THEN <<>> ELSE <<cur>>)
  ELSE IF IsSeparator(Head(s))
       THEN (IF cur = <<>> THEN <<>> ELSE <<cur>>) \o Tokens(Tail(s), <<>>)
       ELSE Tokens(Tail(s), Append(cur, Head(s)))

\* tokens.join(',')
RECURSIVE JoinComma(_)
JoinComma(toks) ==
  IF toks = <<>> THEN <<>>
  ELSE IF Len(toks) = 1 THEN toks[1]
  ELSE toks[1] \o <<",">> \o JoinComma(Tail(toks))

normalizeChinese(q) ==
  [ingredients |-> IF Given(q.ingredients)
                   THEN Str(JoinComma(Tokens(q.ingredients.val, <<>>)))
                   ELSE Undefined,
   category |-> IF Given(q.category) THEN Str(Trim(q.category.val)) ELSE Undefined,
   cuisine |-> IF Given(q.cuisine) THEN Str(Trim(q.cuisine.val)) ELSE Undefined]

\* the request is answered without calling recipeTool.execute
EntryRejects(e, q, limit) ==
  IF e = "http" THEN LimitOnly(q, limit) ELSE ~SchemaAccepts(limit)

\* the context object recipeTool.execute receives
EntryContext(e, q, limit) ==
  LET fields == IF e = "http" THEN normalizeChinese(q) ELSE q
  IN [ingredients |-> fields.ingredients, category |-> fields.category,
      cuisine |-> fields.cuisine, limit |-> Num(Coalesce(limit))]

\* status of the HTTP response (0: the entry point is not HTTP)
StatusOf(e, code) == IF e = "http" THEN code ELSE 0

----------------------------------------------------------------------------
(* State machine of one request *)

InitLocals ==
  /\ caught = FALSE
  /\ filterCalls = <<>>
  /\ searchCalls = <<>>
  /\ summaries = <<>>
  /\ filterResp = "none"
  /\ searchResp = "none"
  /\ lookupResps = <<>>
  /\ lookups = <<>>
  /\ details = <<>>
  /\ results = <<>>
  /\ tries = 0
  /\ randomGaveItem = FALSE
  /\ randomAllThrew = TRUE
  /\ recipes = <<>>
  /\ via = "none"
  /\ source = "none"
  /\ outcome = "none"
  /\ status = 0

InitPipeline ==
  /\ entry = "none"
  /\ context = [ingredients |-> Undefined, category |-> Undefined,
                cuisine |-> Undefined, limit |-> NoNumber]
  /\ pc = "idle"
  /\ InitLocals

\* JavaScript null
Null == [some |-> FALSE, val |-> <<>>]

RawFields ==
  {"strCategory", "strArea", "strTags", "strInstructions", "strMealThumb",
   "strYoutube"}

RecipeFields ==
  {"category", "area", "tags", "instructions", "thumbnail", "youtube"}

IdleExtract == meal = <<>> /\ items = <<>> /\ extracted = FALSE

IdleNormalize ==
  /\ raw = [f \in RawFields |-> Null]
  /\ normalized = [done |-> FALSE, recipe |-> [f \in RecipeFields |-> Null]]

NoPayload == [t |-> "none", ids |-> <<>>]

IdleClient ==
  /\ request = [fn |-> "none", term |-> <<>>, payload |-> NoPayload]
  /\ reply = [t |-> "none", val |-> Null]

\* no text to translate (the name is a required field of a recipe)
NoRecipe ==
  [name |-> <<>>, category |-> Null, area |-> Null,
   tags |-> [some |-> FALSE, val |-> <<>>], instructions |-> Null,
   ingredients |-> <<>>]

IdleWorker ==
  worker = [phase |-> "idle", calls |-> 0, firstVia |-> "none",
            recipes |-> <<>>, status |-> 0]

IdleApp ==
  /\ single = [phase |-> "idle", recipe |-> NoRecipe, language |-> "en-US",
               result |-> <<>>]
  /\ writes = <<>>
  /\ batch = [phase |-> "idle", n |-> 0, i |-> 0, calls |-> <<>>,
              results |-> <<>>]
  /\ norm = [done |-> FALSE, input |-> Query(Undefined, Undefined, Undefined),
             output |-> Query(Undefined, Undefined, Undefined)]
  /\ IdleWorker

FieldNames == <<"ingredients", "category", "cuisine">>

\* a field the result of translateRecipeInputEnhanced does not carry
NoTerms ==
  [some |-> FALSE, original |-> <<>>, translated |-> <<>>,
   relatedTerms |-> <<>>, assoc |-> "none", answers |-> <<>>]

NoCall ==
  [n |-> 0, fn |-> "none", kind |-> "none", text |-> <<>>,
   answer |-> [t |-> "none", content |-> <<>>], value |-> <<>>]

\* new Map(), no call made
IdleCaches ==
  /\ cache = <<>>
  /\ associationCache = <<>>
  /\ translationCache = <<>>
  /\ backend = <<>>
  /\ exp = [phase |-> "idle", input |-> Query(Undefined, Undefined, Undefined),
            enable |-> TRUE, field |-> 1, assoc |-> "none"]
  /\ flights = <<>>
  /\ expanded = [f \in Range(FieldNames) |-> NoTerms]
  /\ last = NoCall
  /\ remoteCalls = 0

IdleTranslator == apiKey = FALSE /\ IdleCaches

Init ==
  /\ InitPipeline
  /\ cancelled = FALSE
  /\ IdleExtract
  /\ IdleNormalize
  /\ IdleClient
  /\ IdleApp
  /\ IdleTranslator

\* return { recipes, source: 'TheMealDB' }
Return(rs, stmt) ==
  /\ recipes' = rs
  /\ via' = stmt
  /\ source' = TheMealDB
  /\ outcome' = "ok"
  /\ status' = StatusOf(entry, 200)
  /\ pc' = "done"

\* a throw inside the try block enters the catch block, which starts
\* randomSelection; the locals of the unwound frames are gone
Throw ==
  /\ caught' = TRUE
  /\ details' = <<>>
  /\ IF CatchTarget = "random"
     THEN /\ pc' = "random"
          /\ UNCHANGED <<recipes, via, source, outcome, status>>
     ELSE /\ pc' = "done"
          /\ outcome' = "thrown"
          /\ status' = StatusOf(entry, 500)
          /\ UNCHANGED <<recipes, via, source>>

\* a request arrives at an entry point; validation, then execute up to its
\* first provider call
Invoke(e, q, limit) ==
  /\ pc = "idle"
  /\ entry' = e
  /\ UNCHANGED <<caught, searchCalls, summaries, filterResp, searchResp,
                 lookups, lookupResps, details, results, tries, randomGaveItem, randomAllThrew, recipes, via,
                 source, sideVars>>
  /\ IF EntryRejects(e, q, limit)
     THEN /\ pc' = "done"
          /\ outcome' = "rejected"
          /\ status' = StatusOf(e, 400)
          /\ context' = [ingredients |-> q.ingredients, category |-> q.category,
                         cuisine |-> q.cuisine, limit |-> limit]
          /\ UNCHANGED filterCalls
     ELSE LET ctx == EntryContext(e, q, limit)
          IN /\ context' = ctx
             /\ UNCHANGED <<outcome, status>>
             /\ IF SelectKind(ctx) = "none"
                THEN pc' = "random" /\ UNCHANGED filterCalls
                ELSE /\ pc' = "filter"
                     /\ filterCalls' =
                          <<[kind |-> SelectKind(ctx), term |-> FilterTerm(ctx)]>>

\* the pending filter call completes with resp
FilterReturns(resp) ==
  /\ pc = "filter"
  /\ UNCHANGED <<entry, context, filterCalls, searchResp, lookupResps, results,
                 tries, randomGaveItem, randomAllThrew, sideVars>>
  /\ filterResp' = KindOf(resp)
  /\ IF Escapes(resp)
     THEN Throw /\ UNCHANGED <<searchCalls, summaries, lookups>>
     ELSE /\ summaries' = MealsOf(resp)
          /\ UNCHANGED <<caught, details>>
          /\ IF MealsOf(resp) = <<>>
             THEN /\ pc' = "search"
                  /\ searchCalls' = Append(searchCalls, FilterTerm(context))
                  /\ UNCHANGED <<lookups, recipes, via, source, outcome, status>>
             ELSE LET ids == LookupIds(MealsOf(resp), context.limit)
                  IN /\ UNCHANGED searchCalls
                     /\ IF ids = <<>>
                        THEN Return(<<>>, "filter") /\ UNCHANGED lookups
                        ELSE /\ pc' = "lookup"
                             /\ lookups' = <<ids[1]>>
                             /\ UNCHANGED <<recipes, via, source, outcome, status>>

\* the pending searchByName call completes with resp
SearchReturns(resp) ==
  /\ pc = "search"
  /\ UNCHANGED <<entry, context, filterCalls, searchCalls, summaries, filterResp,
                 lookups, lookupResps, results, tries, randomGaveItem,
                 randomAllThrew, sideVars>>
  /\ searchResp' = KindOf(resp)
  /\ IF Escapes(resp)
     THEN Throw
     ELSE /\ UNCHANGED <<caught, details>>
          /\ IF MealsOf(resp) # <<>>
             THEN Return(Normalized(MealsOf(resp), context.limit), "search")
             ELSE /\ pc' = "random"
                  /\ UNCHANGED <<recipes, via, source, outcome, status>>

\* the pending lookup call of fetchDetailsFor completes with resp
LookupReturns(resp) ==
  /\ pc = "lookup"
  /\ UNCHANGED <<entry, context, filterCalls, searchCalls, summaries, filterResp,
                 searchResp, results, tries, randomGaveItem, randomAllThrew,
                 sideVars>>
  /\ lookupResps' = Append(lookupResps, resp)
  /\ IF resp = "throw"
     THEN Throw /\ UNCHANGED lookups
     ELSE LET ids == LookupIds(summaries, context.limit)
              found == IF resp = "found"
                       THEN Append(details, lookups[Len(lookups)])
                       ELSE details
          IN /\ details' = found
             /\ UNCHANGED caught
             /\ IF Len(lookups) < Len(ids)
                THEN /\ lookups' = Append(lookups, ids[Len(lookups) + 1])
                     /\ UNCHANGED <<pc, recipes, via, source, outcome, status>>
                ELSE /\ UNCHANGED lookups
                     /\ Return(found, "filter")

\* one iteration of randomSelection's loop, and its return when the loop ends
RandomReturns(resp) ==
  /\ pc = "random"
  /\ RandomContinues(results, tries)
  /\ UNCHANGED <<entry, context, filterCalls, searchCalls, summaries,
                 filterResp, searchResp, lookups, lookupResps, sideVars>>
  /\ tries' = tries + 1
  /\ randomGaveItem' = (randomGaveItem \/ (resp.t = "meal" /\ resp.id # NoId))
  /\ randomAllThrew' = (randomAllThrew /\ resp.t = "throw")
  /\ IF resp.t = "throw" /\ ~SwallowsRandomError
     THEN \* the error leaves randomSelection: into execute's catch block
          \* when raised inside the try block, to the caller otherwise
          /\ UNCHANGED <<results, recipes, via, source>>
          /\ IF caught
             THEN /\ pc' = "done"
                  /\ outcome' = "thrown"
                  /\ status' = StatusOf(entry, 500)
                  /\ UNCHANGED <<caught, details>>
             ELSE Throw
     ELSE /\ results' = RandomPush(results, resp)
          /\ UNCHANGED <<caught, details>>
          /\ IF RandomContinues(results', tries')
             THEN UNCHANGED <<pc, recipes, via, source, outcome, status>>
             ELSE Return(Normalized(results', context.limit),
                         IF caught THEN "catch" ELSE "random")

Next ==
  \/ \E e \in Entries : \E q \in Queries : \E l \in LimitsOf(e) : Invoke(e, q, l)
  \/ \E resp \in ListResponses : FilterReturns(resp)
  \/ \E resp \in ListResponses : SearchReturns(resp)
  \/ \E resp \in LookupResponses : LookupReturns(resp)
  \/ \E resp \in RandomResponses(results) : RandomReturns(resp)

Spec == Init /\ [][Next]_vars

----------------------------------------------------------------------------
(* extractIngredients *)

NumSlots == 20
Slots == 1..NumSlots

\* strIngredient<i> / strMeasure<i> of a detail: string | null
Slot(n, m) == [ingredient |-> n, measure |-> m]
AbsentSlot == Slot(Undefined, Undefined)

FilledSlots ==
  { Slot(Str(<<"s">>), Str(<<"1", " ">>)),
    Slot(Str(<<" ", "p", " ">>), Str(<<>>)),
    Slot(Str(<<" ">>), Str(<<"m">>)),
    Slot(Undefined, Str(<<"m">>)),
    Slot(Str(<<"s">>), Undefined) }

RECURSIVE PositionSets(_)
PositionSets(k) ==
  IF k = 0 THEN {{}}
  ELSE LET fewer == PositionSets(k - 1)
       IN fewer \cup {P \cup {i} : P \in fewer, i \in Slots}

\* the detail whose slots at the positions P are filled as f says, the
\* others being absent
MealOf(P, f) == [i \in Slots |-> IF i \in P THEN f[i] ELSE AbsentSlot]

\* (x || '')?.trim()
OrEmptyTrim(x) == IF Truthy(x) THEN Trim(x.val) ELSE <<>>

\* variant: a slot is kept only when its measure is non-empty too
ExtractKeepsMeasured(ingredient, measure) == ingredient # <<>> /\ measure # <<>>

\* if (ingredient)
ExtractKeeps(ingredient, measure) == ingredient # <<>>

RECURSIVE ExtractFrom(_, _)
ExtractFrom(m, i) ==
  IF i > NumSlots THEN <<>>
  ELSE LET ingredient == OrEmptyTrim(m[i].ingredient)
           measure == OrEmptyTrim(m[i].measure)
       IN (IF ExtractKeeps(ingredient, measure)
           THEN <<[ingredient |-> ingredient, measure |-> measure]>>
           ELSE <<>>) \o ExtractFrom(m, i + 1)

extractIngredients(m) == ExtractFrom(m, 1)

InitExtract ==
  /\ InitPipeline
  /\ cancelled = FALSE
  /\ \E P \in PositionSets(MaxFilled) :
       \E f \in [P -> FilledSlots] : meal = MealOf(P, f)
  /\ items = <<>>
  /\ extracted = FALSE
  /\ IdleNormalize
  /\ IdleClient
  /\ IdleApp
  /\ IdleTranslator

Extract ==
  /\ ~extracted
  /\ items' = extractIngredients(meal)
  /\ extracted' = TRUE
  /\ UNCHANGED <<meal, pipelineVars, cancelled, normalizeVars, clientVars,
                 translatorVars, appVars>>

NextExtract == Extract

SpecExtract == InitExtract /\ [][NextExtract]_vars

----------------------------------------------------------------------------
(* randomSelection on its own: execute called through the tool with no      *)
(* filter field, at its call of randomSelection; every started iteration    *)
(* of the loop completes                                                    *)

InitRandom ==
  /\ entry = "tool"
  /\ \E l \in ValidLimits :
       context = [ingredients |-> Undefined, category |-> Undefined,
                  cuisine |-> Undefined, limit |-> Num(l)]
  /\ pc = "random"
  /\ InitLocals
  /\ cancelled = FALSE
  /\ IdleExtract
  /\ IdleNormalize
  /\ IdleClient
  /\ IdleApp
  /\ IdleTranslator

NextRandom == \E resp \in RandomResponses(results) : RandomReturns(resp)

SpecRandom == InitRandom /\ [][NextRandom]_vars /\ WF_vars(NextRandom)

----------------------------------------------------------------------------
(* The mapping of a provider detail to a recipe: the object literal execute *)
(* builds from each detail (id, name and ingredients are left out: the      *)
(* first two are copied, the third is extractIngredients)                   *)

MaxTag == 3         \* longest strTags text enumerated

TagChars == {"a", " ", ","}
tTags == <<"a", ",", " ", "b", ",", ",", "c">>

\* values of strTags: string | null
TagTexts ==
  {Null} \cup {Str(t) : t \in SeqsUpTo(TagChars, MaxTag) \cup {tTags}}

\* values of the other optional fields: string | null
FieldTexts == {Null, Str(<<>>), Str(<<"x">>)}

RawDetails ==
  [strCategory : FieldTexts, strArea : FieldTexts, strTags : TagTexts,
   strInstructions : FieldTexts, strMealThumb : FieldTexts,
   strYoutube : FieldTexts]

\* s.split(',')
RECURSIVE SplitComma(_, _)
SplitComma(s, cur) ==
  IF s = <<>> THEN <<cur>>
  ELSE IF Head(s) = "," THEN <<cur>> \o SplitComma(Tail(s), <<>>)
  ELSE SplitComma(Tail(s), Append(cur, Head(s)))

\* .map((t) => t.trim())
MapTrim(parts) == [i \in 1..Len(parts) |-> Trim(parts[i])]

\* .filter(Boolean)
FilterBoolean(parts) == SelectSeq(parts, LAMBDA p : p # <<>>)

\* variant: the empty parts are not filtered out
TagsOfUnfiltered(strTags) ==
  IF Truthy(strTags)
  THEN [some |-> TRUE, val |-> MapTrim(SplitComma(strTags.val, <<>>))]
  ELSE Null

\* meal.strTags ? meal.strTags.split(',').map(trim).filter(Boolean) : null
TagsOf(strTags) ==
  IF Truthy(strTags)
  THEN [some |-> TRUE,
        val |-> FilterBoolean(MapTrim(SplitComma(strTags.val, <<>>)))]
  ELSE Null

\* x || null
OrNull(x) == IF Truthy(x) THEN x ELSE Null

RecipeOf(m) ==
  [category |-> OrNull(m.strCategory),
   area |-> OrNull(m.strArea),
   tags |-> TagsOf(m.strTags),
   instructions |-> OrNull(m.strInstructions),
   thumbnail |-> OrNull(m.strMealThumb),
   youtube |-> OrNull(m.strYoutube)]

InitNormalize ==
  /\ InitPipeline
  /\ cancelled = FALSE
  /\ IdleExtract
  /\ raw \in RawDetails
  /\ normalized = [done |-> FALSE, recipe |-> [f \in RecipeFields |-> Null]]
  /\ IdleClient
  /\ IdleApp
  /\ IdleTranslator

Normalize ==
  /\ ~normalized.done
  /\ normalized' = [done |-> TRUE, recipe |-> RecipeOf(raw)]
  /\ UNCHANGED <<raw, pipelineVars, cancelled, extractVars, clientVars,
                 translatorVars, appVars>>

NextNormalize == Normalize

SpecNormalize == InitNormalize /\ [][NextNormalize]_vars

----------------------------------------------------------------------------
(* The provider client on its own: filterByIngredient, filterByCategory,    *)
(* filterByArea and searchByName, each `fetch`, `resp.json()` and the       *)
(* Array.isArray test                                                       *)

ClientFunctions ==
  {"filterByIngredient", "filterByCategory", "filterByArea", "searchByName"}

ClientTerms == {<<>>, tA, tC}

\* how the exchange goes: fetch rejects ("network"); the body is not JSON, so
\* resp.json() rejects ("notjson"); the body is JSON null ("jsonnull"), an
\* object without `meals` ("nomeals"), with meals: null, the provider's way
\* to report no match ("mealsnull"), with a `meals` that is not an array
\* ("mealstext"), or with a `meals` array ("list")
Payloads ==
  {[t |-> k, ids |-> <<>>] :
     k \in {"network", "notjson", "jsonnull", "nomeals", "mealsnull",
            "mealstext"}}
    \cup {[t |-> "list", ids |-> l] : l \in IdLists}

\* the awaited fetch or resp.json() rejects; nothing catches it
Rejects(p) == p.t \in {"network", "notjson"}

\* variant: json.meals is returned as it is
ListOfUnchecked(p) == IF p.t = "list" THEN [some |-> TRUE, val |-> p.ids] ELSE Null

\* return Array.isArray(json?.meals) ? json.meals : []
ListOf(p) == [some |-> TRUE, val |-> MealsOf(p)]

\* the completion of a client function whose exchange goes as p
ClientReply(p) ==
  IF Rejects(p) THEN [t |-> "throw", val |-> Null]
  ELSE [t |-> "return", val |-> ListOf(p)]

InitClient ==
  /\ InitPipeline
  /\ cancelled = FALSE
  /\ IdleExtract
  /\ IdleNormalize
  /\ IdleClient
  /\ IdleApp
  /\ IdleTranslator

\* a client function is called and issues its fetch
ClientCalls(fn, term) ==
  /\ request.fn = "none"
  /\ request' = [fn |-> fn, term |-> term, payload |-> NoPayload]
  /\ UNCHANGED <<reply, pipelineVars, cancelled, extractVars, normalizeVars,
                 translatorVars, appVars>>

\* the exchange completes and the function returns or throws
ClientCompletes(p) ==
  /\ request.fn # "none" /\ reply.t = "none"
  /\ request' = [request EXCEPT !.payload = p]
  /\ reply' = ClientReply(p)
  /\ UNCHANGED <<pipelineVars, cancelled, extractVars, normalizeVars,
                 translatorVars, appVars>>

NextClient ==
  \/ \E fn \in ClientFunctions : \E term \in ClientTerms : ClientCalls(fn, term)
  \/ \E p \in Payloads : ClientCompletes(p)

SpecClient == InitClient /\ [][NextClient]_vars

----------------------------------------------------------------------------
(* The pipeline with a caller that may cancel its request while a provider  *)
(* call is in flight.  execute receives no abort signal and passes none to  *)
(* fetch: the cancellation changes nothing in the pipeline's state          *)

Cancel ==
  /\ pc \in {"filter", "search", "lookup", "random"}
  /\ ~cancelled
  /\ cancelled' = TRUE
  /\ UNCHANGED <<pipelineVars, extractVars, normalizeVars, clientVars,
                 translatorVars, appVars>>

NextCancel == Next \/ Cancel

SpecCancel == Init /\ [][NextCancel]_vars

----------------------------------------------------------------------------
(* The pipeline called without a limit, the provider answering with lists   *)
(* longer than the default limit                                            *)

MaxLong == 6        \* longest list of a filter or search response here

\* one list of each length, its ids cycling through Ids
LongLists ==
  {[i \in 1..n |-> ((i - 1) % NumIds) + 1] : n \in 0..MaxLong}

LongResponses ==
  {[t |-> "throw", ids |-> <<>>], [t |-> "malformed", ids |-> <<>>]}
    \cup {[t |-> "list", ids |-> l] : l \in LongLists}

NextDefault ==
  \/ \E e \in Entries : \E q \in Queries : Invoke(e, q, NoNumber)
  \/ \E resp \in LongResponses : FilterReturns(resp)
  \/ \E resp \in LongResponses : SearchReturns(resp)
  \/ \E resp \in LookupResponses : LookupReturns(resp)
  \/ \E resp \in RandomResponses(results) : RandomReturns(resp)

SpecDefault == Init /\ [][NextDefault]_vars

----------------------------------------------------------------------------
(* The translator: class Translator (translate, generateRelatedTerms,       *)
(* translateRecipeInputEnhanced) and the function translateText.  A chat    *)
(* completion request either throws, comes back with a non-success status,  *)
(* or carries a content text                                                *)

\* two ideographs of the range U+4E00..U+9FA5, each one character of a text
CJK == {"u9e21", "u86cb"}
tJi == <<"u9e21">>
tDan == <<"u86cb">>
tE == <<"e">>

\* /[一-龥]/.test(text)
isChinese(text) == \E i \in 1..Len(text) : text[i] \in CJK

Failed(t) == [t |-> t, content |-> <<>>]
Content(c) == [t |-> "content", content |-> c]
Failures == {Failed("throw"), Failed("status")}

\* variant: set keeps the value of a key the map already holds
MapSetKeepsFirst(m, k, v) ==
  [x \in DOMAIN m \cup {k} |-> IF x \in DOMAIN m THEN m[x] ELSE v]

\* map.set(k, v)
MapSet(m, k, v) == [x \in DOMAIN m \cup {k} |-> IF x = k THEN v ELSE m[x]]

\* `${targetLang}:${text}`
TranslateKey(lang, text) == <<lang, text>>

\* `${type}:${input}`
AssociationKey(type, input) == <<type, input>>

Flight(text, state, value, answer) ==
  [text |-> text, state |-> state, value |-> value, answer |-> answer]

\* translate up to its fetch: it returns at once for a blank text, without
\* an API key and on a cache hit
TranslateBegins(text, lang, key, c) ==
  IF Trim(text) = <<>> THEN Flight(text, "done", text, "blank")
  ELSE IF ~key THEN Flight(text, "done", text, "nokey")
  ELSE IF TranslateKey(lang, text) \in DOMAIN c
       THEN Flight(text, "done", c[TranslateKey(lang, text)], "hit")
  ELSE Flight(text, "pending", text, "none")

\* data.choices?.[0]?.message?.content?.trim() || text, and text when the
\* status is not ok or the call throws
TranslationOf(text, r) ==
  IF r.t = "content" /\ Trim(r.content) # <<>> THEN Trim(r.content) ELSE text

\* variant: the value returned is stored whatever the answer
StoresAlways(r) == TRUE

\* the answer reaches cache.set
Stores(r) == r.t = "content"

\* associationText.split(',').map(trim).filter(Boolean).slice(0, 3), and []
\* when the status is not ok or the call throws
RelatedTermsOf(r) ==
  IF r.t = "content"
  THEN Slice(FilterBoolean(MapTrim(SplitComma(Trim(r.content), <<>>))), 3)
  ELSE <<>>

\* variant: translate has no catch block and no status test
TranslateRethrows == FALSE

\* try { ... if (!response.ok) return text ... } catch (error) { return text }
TranslateCatches == TRUE

----------------------------------------------------------------------------
(* translateRecipeInputEnhanced on a fresh Translator *)

tTerms == <<" ", "u86cb", ",", ",", "u9e21", " ", ",", "u86cb", ",", "e">>

ExpandInputs ==
  { Query(Undefined, Undefined, Undefined),
    Query(Str(tJi), Undefined, Undefined),
    Query(Undefined, Str(tJi), Undefined),
    Query(Str(<<>>), Undefined, Str(tJi)),
    Query(Str(tE), Str(tBlank), Undefined),
    Query(Str(tJi), Str(tE), Undefined),
    Query(Str(tJi), Undefined, Str(tJi)) }

TranslateAnswers == Failures \cup {Content(<<>>), Content(<<" ", "t">>)}

AssociationAnswers ==
  Failures \cup {Content(<<>>), Content(tDan), Content(tTerms)}

Pending(fs) == {i \in 1..Len(fs) : fs[i].state = "pending"}

\* Promise.all([translate(original, 'en-US'), ...related.map(translate)]):
\* every call runs up to its fetch before any answer arrives
BeginAll(original, related) ==
  [i \in 1..(1 + Len(related)) |->
     TranslateBegins(IF i = 1 THEN original ELSE related[i - 1], "en-US",
                     apiKey, cache)]

InitExpand ==
  /\ InitPipeline
  /\ cancelled = FALSE
  /\ IdleExtract
  /\ IdleNormalize
  /\ IdleClient
  /\ IdleApp
  /\ apiKey \in BOOLEAN
  /\ IdleCaches

notExpandVars ==
  <<pipelineVars, cancelled, extractVars, normalizeVars, clientVars,
    translationCache, backend, last, apiKey, appVars>>

ExpandCalled(input, enable) ==
  /\ exp.phase = "idle"
  /\ exp' = [phase |-> "field", input |-> input, enable |-> enable,
             field |-> 1, assoc |-> "none"]
  /\ UNCHANGED <<cache, associationCache, flights, expanded, remoteCalls,
                 notExpandVars>>

\* the block of the next field, up to its first remote call
FieldStarts ==
  /\ exp.phase = "field" /\ exp.field <= Len(FieldNames)
  /\ LET name == FieldNames[exp.field]
         x == exp.input[name]
         key == AssociationKey(name, x.val)
         start(related, how) ==
           /\ flights' = BeginAll(x.val, related)
           /\ exp' = [exp EXCEPT !.phase = "translate", !.assoc = how]
           /\ remoteCalls' = remoteCalls + Cardinality(Pending(flights'))
           /\ UNCHANGED expanded
     IN /\ UNCHANGED <<cache, associationCache, notExpandVars>>
        /\ IF ~Truthy(x)
           THEN /\ exp' = [exp EXCEPT !.field = @ + 1]
                /\ UNCHANGED <<flights, expanded, remoteCalls>>
           ELSE IF ~(isChinese(x.val) /\ exp.enable)
           THEN /\ expanded' =
                     [expanded EXCEPT ![name] =
                        [some |-> TRUE, original |-> x.val,
                         translated |-> x.val, relatedTerms |-> <<>>,
                         assoc |-> "none", answers |-> <<>>]]
                /\ exp' = [exp EXCEPT !.field = @ + 1]
                /\ UNCHANGED <<flights, remoteCalls>>
           ELSE IF Trim(x.val) = <<>> THEN start(<<>>, "blank")
           ELSE IF ~apiKey THEN start(<<>>, "nokey")
           ELSE IF key \in DOMAIN associationCache
                THEN start(associationCache[key], "hit")
           ELSE /\ exp' = [exp EXCEPT !.phase = "assoc"]
                /\ remoteCalls' = remoteCalls + 1
                /\ UNCHANGED <<flights, expanded>>

\* the association request of generateRelatedTerms completes
AssociationReturns(r) ==
  /\ exp.phase = "assoc"
  /\ LET name == FieldNames[exp.field]
         x == exp.input[name]
         related == RelatedTermsOf(r)
     IN /\ associationCache' =
             IF Stores(r)
             THEN MapSet(associationCache, AssociationKey(name, x.val), related)
             ELSE associationCache
        /\ flights' = BeginAll(x.val, related)
        /\ exp' = [exp EXCEPT !.phase = "translate", !.assoc = r.t]
        /\ remoteCalls' = remoteCalls + Cardinality(Pending(flights'))
        /\ UNCHANGED <<cache, expanded, notExpandVars>>

\* the request of one pending translate call completes
FlightReturns(i, r) ==
  /\ exp.phase = "translate"
  /\ i \in Pending(flights)
  /\ UNCHANGED <<associationCache, expanded, remoteCalls, notExpandVars>>
  /\ IF r \in Failures /\ ~TranslateCatches
     THEN /\ exp' = [exp EXCEPT !.phase = "thrown"]
          /\ UNCHANGED <<cache, flights>>
     ELSE LET value == TranslationOf(flights[i].text, r)
          IN /\ flights' =
                  [flights EXCEPT ![i] = Flight(@.text, "done", value, r.t)]
             /\ cache' =
                  IF Stores(r)
                  THEN MapSet(cache, TranslateKey("en-US", flights[i].text), value)
                  ELSE cache
             /\ UNCHANGED exp

\* Promise.all resolves and the field's entry of the result is written
FieldCompletes ==
  /\ exp.phase = "translate"
  /\ Pending(flights) = {}
  /\ LET name == FieldNames[exp.field]
     IN expanded' =
          [expanded EXCEPT ![name] =
             [some |-> TRUE, original |-> exp.input[name].val,
              translated |-> flights[1].value,
              relatedTerms |-> [i \in 1..(Len(flights) - 1) |-> flights[i + 1].value],
              assoc |-> exp.assoc,
              answers |-> [i \in 1..Len(flights) |-> flights[i].answer]]]
  /\ flights' = <<>>
  /\ exp' = [exp EXCEPT !.phase = "field", !.field = @ + 1, !.assoc = "none"]
  /\ UNCHANGED <<cache, associationCache, remoteCalls, notExpandVars>>

\* return result
ExpandReturns ==
  /\ exp.phase = "field" /\ exp.field > Len(FieldNames)
  /\ exp' = [exp EXCEPT !.phase = "returned"]
  /\ UNCHANGED <<cache, associationCache, flights, expanded, remoteCalls,
                 notExpandVars>>

NextExpand ==
  \/ \E input \in ExpandInputs : \E enable \in BOOLEAN : ExpandCalled(input, enable)
  \/ FieldStarts
  \/ \E r \in AssociationAnswers : AssociationReturns(r)
  \/ \E i \in 1..Len(flights) : \E r \in TranslateAnswers : FlightReturns(i, r)
  \/ FieldCompletes
  \/ ExpandReturns

SpecExpand == InitExpand /\ [][NextExpand]_vars

----------------------------------------------------------------------------
(* Sequences of translator calls against a deterministic backend: a request *)
(* that is repeated gets the answer it got before.  Each call is one step;  *)
(* `backend` also records the answer the backend has for a request that a   *)
(* cache hit kept from being sent                                           *)

MaxCalls == 3       \* calls made in one behaviour

tUpper == <<"E">>
tPadded == <<"e", " ">>

CallTexts == {tUpper, tPadded}
AssociationInputs == {tJi}
Languages == {"zh-CN", "en-US"}

\* String.prototype.toLowerCase
ToLower(text) == [i \in 1..Len(text) |-> IF text[i] = "E" THEN "e" ELSE text[i]]

\* text.toLowerCase().trim()
TextKey(text) == Trim(ToLower(text))

\* the backend's answer to req is r
Answers(req, r) == req \in DOMAIN backend => backend[req] = r

\* the record of the next call
Call(fn, kind, text, r, value) ==
  [n |-> last.n + 1, fn |-> fn, kind |-> kind, text |-> text, answer |-> r,
   value |-> value]

InitCalls ==
  /\ InitPipeline
  /\ cancelled = FALSE
  /\ IdleExtract
  /\ IdleNormalize
  /\ IdleClient
  /\ IdleApp
  /\ apiKey \in BOOLEAN
  /\ IdleCaches

notCallVars ==
  <<pipelineVars, cancelled, extractVars, normalizeVars, clientVars, apiKey,
    exp, flights, expanded, appVars>>

CallsLeft == last.n < MaxCalls

\* Translator.translate(text, targetLang)
TranslateCall(text, lang, r) ==
  LET req == <<"translate", lang, text>>
      begun == TranslateBegins(text, lang, apiKey, cache)
      sent == begun.state = "pending"
      value == IF sent THEN TranslationOf(text, r) ELSE begun.value
  IN /\ CallsLeft
     /\ Answers(req, r)
     /\ backend' = MapSet(backend, req, r)
     /\ cache' = IF sent /\ Stores(r)
                 THEN MapSet(cache, TranslateKey(lang, text), value)
                 ELSE cache
     /\ remoteCalls' = IF sent THEN remoteCalls + 1 ELSE remoteCalls
     /\ last' = Call("translate", lang, text, r, value)
     /\ UNCHANGED <<associationCache, translationCache, notCallVars>>

\* translateText(text)
TranslateTextCall(text, r) ==
  LET req == <<"translateText", "zh-CN", text>>
      hit == TextKey(text) \in DOMAIN translationCache
      sent == ~hit /\ apiKey
      value == IF hit THEN translationCache[TextKey(text)]
               ELSE IF sent THEN TranslationOf(text, r)
               ELSE text
  IN /\ CallsLeft
     /\ Answers(req, r)
     /\ backend' = MapSet(backend, req, r)
     /\ translationCache' = IF sent /\ Stores(r)
                            THEN MapSet(translationCache, TextKey(text), value)
                            ELSE translationCache
     /\ remoteCalls' = IF sent THEN remoteCalls + 1 ELSE remoteCalls
     /\ last' = Call("translateText", "zh-CN", text, r, value)
     /\ UNCHANGED <<cache, associationCache, notCallVars>>

\* Translator.generateRelatedTerms(input, type)
RelatedCall(input, type, r) ==
  LET req == <<"associate", type, input>>
      key == AssociationKey(type, input)
      skip == Trim(input) = <<>> \/ ~apiKey
      hit == ~skip /\ key \in DOMAIN associationCache
      sent == ~skip /\ ~hit
      value == IF skip THEN <<>>
               ELSE IF hit THEN associationCache[key]
               ELSE RelatedTermsOf(r)
  IN /\ CallsLeft
     /\ Answers(req, r)
     /\ backend' = MapSet(backend, req, r)
     /\ associationCache' = IF sent /\ Stores(r)
                            THEN MapSet(associationCache, key, value)
                            ELSE associationCache
     /\ remoteCalls' = IF sent THEN remoteCalls + 1 ELSE remoteCalls
     /\ last' = Call("generateRelatedTerms", type, input, r, value)
     /\ UNCHANGED <<cache, translationCache, notCallVars>>

\* Translator.clearCache()
ClearCache ==
  /\ cache # <<>>
  /\ cache' = <<>>
  /\ UNCHANGED <<associationCache, translationCache, backend, remoteCalls,
                 last, notCallVars>>

\* clearTranslationCache()
ClearTranslationCache ==
  /\ translationCache # <<>>
  /\ translationCache' = <<>>
  /\ UNCHANGED <<cache, associationCache, backend, remoteCalls, last,
                 notCallVars>>

NextCalls ==
  \/ \E text \in CallTexts : \E lang \in Languages : \E r \in TranslateAnswers :
       TranslateCall(text, lang, r)
  \/ \E text \in CallTexts : \E r \in TranslateAnswers : TranslateTextCall(text, r)
  \/ \E input \in AssociationInputs : \E type \in Range(FieldNames) :
       \E r \in AssociationAnswers : RelatedCall(input, type, r)
  \/ ClearCache
  \/ ClearTranslationCache

SpecCalls == InitCalls /\ [][NextCalls]_vars


----------------------------------------------------------------------------
(* translateSingleRecipe on a fresh Translator: one Promise.all over the    *)
(* translate calls of name, category, area, tags, instructions and          *)
(* ingredients; the measure of an ingredient is translated after its name   *)

Item(n, m) == [ingredient |-> n, measure |-> m]
Tags(ts) == [some |-> TRUE, val |-> ts]
NoTags == [some |-> FALSE, val |-> <<>>]

Rec(n, c, a, ts, ins, ings) ==
  [name |-> n, category |-> c, area |-> a, tags |-> ts, instructions |-> ins,
   ingredients |-> ings]

SingleRecipes ==
  { Rec(tE, Null, Null, NoTags, Null, <<>>),
    Rec(tE, Str(tE), Str(tA), NoTags, Null, <<>>),
    Rec(tA, Null, Null, Tags(<<tE, tE>>), Str(tE), <<>>),
    Rec(tA, Str(<<>>), Null, Tags(<<>>), Null, <<Item(tE, tE)>>),
    Rec(tBlank, Null, Null, NoTags, Null, <<Item(tE, <<>>), Item(tE, tA)>>) }

\* a translate call the recipe asks for: its text, and whether it is made
\* after the call before it has returned (the measure of an ingredient)
Ask(text, after) == [text |-> text, after |-> after]

RECURSIVE AsksOfItems(_)
AsksOfItems(ings) ==
  IF ings = <<>> THEN <<>>
  ELSE <<Ask(Head(ings).ingredient, FALSE), Ask(Head(ings).measure, TRUE)>>
         \o AsksOfItems(Tail(ings))

\* the translate calls of translateSingleRecipe, in the order of the array
\* handed to Promise.all
AsksOf(r) ==
  <<Ask(r.name, FALSE)>>
    \o (IF Truthy(r.category) THEN <<Ask(r.category.val, FALSE)>> ELSE <<>>)
    \o (IF Truthy(r.area) THEN <<Ask(r.area.val, FALSE)>> ELSE <<>>)
    \o (IF r.tags.some
        THEN [i \in 1..Len(r.tags.val) |-> Ask(r.tags.val[i], FALSE)]
        ELSE <<>>)
    \o (IF Truthy(r.instructions) THEN <<Ask(r.instructions.val, FALSE)>> ELSE <<>>)
    \o AsksOfItems(r.ingredients)

\* the calls run up to their first await: a call made after another one
\* starts at once when that one returns without a fetch, and waits otherwise
RECURSIVE BeginAsks(_, _, _)
BeginAsks(asks, c, before) ==
  IF asks = <<>> THEN <<>>
  ELSE LET a == Head(asks)
           f == IF a.after /\ before # "done"
                THEN Flight(a.text, "waiting", a.text, "none")
                ELSE TranslateBegins(a.text, "zh-CN", apiKey, c)
       IN <<f>> \o BeginAsks(Tail(asks), c, f.state)

InitSingle ==
  /\ InitPipeline
  /\ cancelled = FALSE
  /\ IdleExtract
  /\ IdleNormalize
  /\ IdleClient
  /\ IdleApp
  /\ apiKey \in BOOLEAN
  /\ IdleCaches

notSingleVars ==
  <<pipelineVars, cancelled, extractVars, normalizeVars, clientVars,
    associationCache, translationCache, backend, exp, expanded, last, apiKey,
    batch, norm, worker>>

\* translateSingleRecipe(recipe, language) up to its await
SingleCalled(recipe, language) ==
  /\ single.phase = "idle"
  /\ UNCHANGED <<cache, writes, notSingleVars>>
  /\ IF language = "en-US"
     THEN /\ single' = [phase |-> "returned", recipe |-> recipe,
                        language |-> language, result |-> <<>>]
          /\ UNCHANGED <<flights, remoteCalls>>
     ELSE /\ single' = [phase |-> "running", recipe |-> recipe,
                        language |-> language, result |-> <<>>]
          /\ flights' = BeginAsks(AsksOf(recipe), cache, "done")
          /\ remoteCalls' = remoteCalls + Cardinality(Pending(flights'))

\* the request of one pending translate call completes; the call waiting
\* for it, if any, runs up to its own fetch
SingleFlightReturns(i, r) ==
  /\ single.phase = "running"
  /\ i \in Pending(flights)
  /\ UNCHANGED notSingleVars
  /\ IF r \in Failures /\ ~TranslateCatches
     THEN /\ single' = [single EXCEPT !.phase = "thrown"]
          /\ UNCHANGED <<cache, flights, writes, remoteCalls>>
     ELSE LET text == flights[i].text
              value == TranslationOf(text, r)
              key == TranslateKey("zh-CN", text)
              stored == IF Stores(r) THEN MapSet(cache, key, value) ELSE cache
              next == IF i < Len(flights) /\ flights[i + 1].state = "waiting"
                      THEN {i + 1} ELSE {}
          IN /\ cache' = stored
             /\ writes' = IF Stores(r)
                          THEN Append(writes, [key |-> key, value |-> value, by |-> i])
                          ELSE writes
             /\ flights' =
                  [j \in 1..Len(flights) |->
                     IF j = i THEN Flight(text, "done", value, r.t)
                     ELSE IF j \in next
                          THEN TranslateBegins(flights[j].text, "zh-CN", apiKey, stored)
                     ELSE flights[j]]
             /\ remoteCalls' = remoteCalls + Cardinality(Pending(flights') \cap next)
             /\ UNCHANGED single

\* Promise.all resolves: return { ...recipe, name, category, ... }
SingleReturns ==
  /\ single.phase = "running"
  /\ \A i \in 1..Len(flights) : flights[i].state = "done"
  /\ single' = [single EXCEPT !.phase = "returned",
                              !.result = [i \in 1..Len(flights) |-> flights[i].value]]
  /\ UNCHANGED <<cache, flights, writes, remoteCalls, notSingleVars>>

NextSingle ==
  \/ \E recipe \in SingleRecipes : \E language \in Languages :
       SingleCalled(recipe, language)
  \/ \E i \in 1..Len(flights) : \E r \in TranslateAnswers : SingleFlightReturns(i, r)
  \/ SingleReturns

SpecSingle == InitSingle /\ [][NextSingle]_vars


----------------------------------------------------------------------------
(* translateRecipes: the recipes are translated in batches of               *)
(* concurrencyLimit, one translateRecipe call and so one batchTranslate     *)
(* request per recipe.  A recipe is its position in the input; a call is    *)
(* "idle" (not made), "pending" (its request is out) or holds its outcome   *)

MaxRecipes == 7     \* longest list of recipes handed to translateRecipes

concurrencyLimit == 3

\* how a batchTranslate request ends: it throws, the status is not ok, the
\* number of translated parts differs from the number of texts, or it fits
BatchAnswers == {"throw", "status", "mismatch", "ok"}

\* translateRecipe up to its fetch: without an API key batchTranslate
\* returns the texts at once
CallBegins == IF apiKey THEN "pending" ELSE "nokey"

\* recipes.slice(i, i + concurrencyLimit), as positions
Window(i, n) == (i + 1)..Min(i + concurrencyLimit, n)

\* variant: the loop goes on as soon as one call of the batch has returned
SettledAny(cs, i, n) == \E p \in Window(i, n) : cs[p] \notin {"idle", "pending"}

\* await Promise.all(batch.map(...)) has resolved
Settled(cs, i, n) == \A p \in Window(i, n) : cs[p] \notin {"idle", "pending"}

\* what translateRecipe returns for recipe p: the recipe with its texts
\* replaced when the request fitted, the recipe as it was otherwise
Translated(p, how) == [id |-> p, translated |-> how = "ok"]

\* the for loop from the start of an iteration to the next await that
\* does not resolve at once, or to `return results`
RECURSIVE Run(_, _, _, _)
Run(cs, i, res, n) ==
  IF i >= n
  THEN [phase |-> "returned", n |-> n, i |-> i, calls |-> cs, results |-> res]
  ELSE LET started == [p \in 1..n |->
                         IF p \in Window(i, n) /\ cs[p] = "idle"
                         THEN CallBegins ELSE cs[p]]
           w == Window(i, n)
       IN IF Settled(started, i, n)
          THEN Run(started, i + concurrencyLimit,
                   res \o [k \in 1..Cardinality(w) |-> Translated(i + k, started[i + k])],
                   n)
          ELSE [phase |-> "running", n |-> n, i |-> i, calls |-> started,
                results |-> res]

InitBatch ==
  /\ InitPipeline
  /\ cancelled = FALSE
  /\ IdleExtract
  /\ IdleNormalize
  /\ IdleClient
  /\ IdleApp
  /\ apiKey \in BOOLEAN
  /\ IdleCaches

notBatchVars ==
  <<pipelineVars, cancelled, extractVars, normalizeVars, clientVars,
    translatorVars, single, norm, worker, writes>>

\* translateRecipes(recipes) with n recipes
BatchCalled(n) ==
  /\ batch.phase = "idle"
  /\ batch' = Run([p \in 1..n |-> "idle"], 0, <<>>, n)
  /\ UNCHANGED notBatchVars

\* the request of the pending translateRecipe call p ends with r
BatchCallReturns(p, r) ==
  /\ batch.phase = "running"
  /\ p \in 1..batch.n /\ batch.calls[p] = "pending"
  /\ batch' = Run([batch.calls EXCEPT ![p] = r], batch.i, batch.results, batch.n)
  /\ UNCHANGED notBatchVars

NextBatch ==
  \/ \E n \in 0..MaxRecipes : BatchCalled(n)
  \/ \E p \in 1..MaxRecipes : \E r \in BatchAnswers : BatchCallReturns(p, r)

SpecBatch == InitBatch /\ [][NextBatch]_vars


----------------------------------------------------------------------------
(* normalizeChinese of the worker and of functions/api/recipes.ts, which    *)
(* rewrite Chinese keywords with three fixed maps.  A Chinese character is  *)
(* written uXXXX, its code point                                            *)

\* const ingredientMap: the ingredient names that are rewritten
ingredientMap ==
  <<"u9e21", "u80f8", "u8089">> :> Str(<<"c", "h", "i", "c", "k", "e", "n">>) @@
  <<"u9e21", "u8089">> :> Str(<<"c", "h", "i", "c", "k", "e", "n">>) @@
  <<"u897f", "u5170", "u82b1">> :> Str(<<"b", "r", "o", "c", "c", "o", "l", "i">>) @@
  <<"u732a", "u8089">> :> Str(<<"p", "o", "r", "k">>) @@
  <<"u725b", "u8089">> :> Str(<<"b", "e", "e", "f">>) @@
  <<"u867e", "u4ec1">> :> Str(<<"s", "h", "r", "i", "m", "p">>) @@
  <<"u867e">> :> Str(<<"s", "h", "r", "i", "m", "p">>) @@
  <<"u8c46", "u8150">> :> Str(<<"t", "o", "f", "u">>) @@
  <<"u9999", "u83c7">> :> Str(<<"s", "h", "i", "i", "t", "a", "k", "e">>) @@
  <<"u5c0f", "u767d", "u83dc">> :> Str(<<"b", "o", "k", " ", "c", "h", "o", "y">>) @@
  <<"u9752", "u6912">> :> Str(<<"g", "r", "e", "e", "n", " ", "p", "e", "p", "p", "e", "r">>) @@
  <<"u8fa3", "u6912">> :> Str(<<"c", "h", "i", "l", "i">>) @@
  <<"u849c">> :> Str(<<"g", "a", "r", "l", "i", "c">>) @@
  <<"u5927", "u849c">> :> Str(<<"g", "a", "r", "l", "i", "c">>) @@
  <<"u9171", "u6cb9">> :> Str(<<"s", "o", "y", " ", "s", "a", "u", "c", "e">>) @@
  <<"u7c73", "u996d">> :> Str(<<"r", "i", "c", "e">>) @@
  <<"u9e21", "u86cb">> :> Str(<<"e", "g", "g">>) @@
  <<"u756a", "u8304">> :> Str(<<"t", "o", "m", "a", "t", "o">>) @@
  <<"u897f", "u7ea2", "u67ff">> :> Str(<<"t", "o", "m", "a", "t", "o">>) @@
  <<"u6d0b", "u8471">> :> Str(<<"o", "n", "i", "o", "n">>)

\* const categoryMap: two of its keys are given the value undefined
categoryMap ==
  <<"u7d20", "u98df">> :> Str(<<"V", "e", "g", "e", "t", "a", "r", "i", "a", "n">>) @@
  <<"u7d20", "u98df", "u7684">> :> Str(<<"V", "e", "g", "e", "t", "a", "r", "i", "a", "n">>) @@
  <<"u6e05", "u6de1">> :> Undefined @@
  <<"u6e05", "u6de1", "u7684">> :> Undefined @@
  <<"u6d77", "u9c9c">> :> Str(<<"S", "e", "a", "f", "o", "o", "d">>) @@
  <<"u9e21", "u8089">> :> Str(<<"C", "h", "i", "c", "k", "e", "n">>) @@
  <<"u725b", "u8089">> :> Str(<<"B", "e", "e", "f">>) @@
  <<"u732a", "u8089">> :> Str(<<"P", "o", "r", "k">>)

\* const cuisineMap
cuisineMap ==
  <<"u4e2d", "u56fd", "u83dc">> :> Str(<<"C", "h", "i", "n", "e", "s", "e">>) @@
  <<"u4e2d", "u534e", "u83dc">> :> Str(<<"C", "h", "i", "n", "e", "s", "e">>) @@
  <<"u5e7f", "u4e1c", "u83dc">> :> Str(<<"C", "h", "i", "n", "e", "s", "e">>) @@
  <<"u5ddd", "u83dc">> :> Str(<<"C", "h", "i", "n", "e", "s", "e">>) @@
  <<"u9c81", "u83dc">> :> Str(<<"C", "h", "i", "n", "e", "s", "e">>) @@
  <<"u6d59", "u83dc">> :> Str(<<"C", "h", "i", "n", "e", "s", "e">>) @@
  <<"u82cf", "u83dc">> :> Str(<<"C", "h", "i", "n", "e", "s", "e">>) @@
  <<"u95fd", "u83dc">> :> Str(<<"C", "h", "i", "n", "e", "s", "e">>) @@
  <<"u5fbd", "u83dc">> :> Str(<<"C", "h", "i", "n", "e", "s", "e">>) @@
  <<"u6e58", "u83dc">> :> Str(<<"C", "h", "i", "n", "e", "s", "e">>) @@
  <<"u65e5", "u672c", "u83dc">> :> Str(<<"J", "a", "p", "a", "n", "e", "s", "e">>) @@
  <<"u610f", "u5927", "u5229", "u83dc">> :> Str(<<"I", "t", "a", "l", "i", "a", "n">>) @@
  <<"u5370", "u5ea6", "u83dc">> :> Str(<<"I", "n", "d", "i", "a", "n">>) @@
  <<"u6cd5", "u56fd", "u83dc">> :> Str(<<"F", "r", "e", "n", "c", "h">>) @@
  <<"u58a8", "u897f", "u54e5", "u83dc">> :> Str(<<"M", "e", "x", "i", "c", "a", "n">>) @@
  <<"u7f8e", "u56fd", "u83dc">> :> Str(<<"A", "m", "e", "r", "i", "c", "a", "n">>) @@
  <<"u82f1", "u56fd", "u83dc">> :> Str(<<"B", "r", "i", "t", "i", "s", "h">>) @@
  <<"u6cf0", "u56fd", "u83dc">> :> Str(<<"T", "h", "a", "i">>) @@
  <<"u8d8a", "u5357", "u83dc">> :> Str(<<"V", "i", "e", "t", "n", "a", "m", "e", "s", "e">>)


\* map[key] of a plain object: undefined for a key the object does not have
Lookup(map, key) == IF key \in DOMAIN map THEN map[key] ELSE Undefined

\* x || d
OrElse(x, d) == IF Truthy(x) THEN x.val ELSE d

\* map[key] ?? key
NullishOr(map, key) ==
  IF Lookup(map, key).some THEN Lookup(map, key) ELSE Str(key)

\* tokens.map((t) => ingredientMap[t] || t)
MapIngredients(toks) ==
  [i \in 1..Len(toks) |-> OrElse(Lookup(ingredientMap, toks[i]), toks[i])]

normalizeChineseWorker(q) ==
  [ingredients |-> IF Given(q.ingredients)
                   THEN Str(JoinComma(MapIngredients(Tokens(q.ingredients.val, <<>>))))
                   ELSE Undefined,
   category |-> IF Given(q.category)
                THEN NullishOr(categoryMap, Trim(q.category.val))
                ELSE Undefined,
   cuisine |-> IF Given(q.cuisine)
               THEN NullishOr(cuisineMap, Trim(q.cuisine.val))
               ELSE Undefined]

tQingDan == <<"u6e05", "u6de1">>
tQingDanDe == <<"u6e05", "u6de1", "u7684">>
tSuShi == <<"u7d20", "u98df">>
tChuanCai == <<"u5ddd", "u83dc">>
tJiRou == <<"u9e21", "u8089">>

FrontIngredients ==
  {Undefined, Str(<<>>), Str(tBlank), Str(tA),
   Str(tJiRou \o <<",", " ">> \o tA), Str(<<" ">> \o tJi \o <<" ">> \o tJiRou)}

FrontCategories ==
  {Undefined, Str(tBlank), Str(tC), Str(tSuShi), Str(tQingDan),
   Str(tQingDanDe), Str(<<" ">> \o tQingDan \o <<" ">>), Str(tJiRou)}

FrontCuisines == {Undefined, Str(<<>>), Str(tU), Str(tChuanCai)}

InitFront ==
  /\ InitPipeline
  /\ cancelled = FALSE
  /\ IdleExtract
  /\ IdleNormalize
  /\ IdleClient
  /\ IdleTranslator
  /\ single = [phase |-> "idle", recipe |-> NoRecipe, language |-> "en-US",
               result |-> <<>>]
  /\ writes = <<>>
  /\ batch = [phase |-> "idle", n |-> 0, i |-> 0, calls |-> <<>>,
              results |-> <<>>]
  /\ IdleWorker
  /\ \E i \in FrontIngredients : \E c \in FrontCategories : \E u \in FrontCuisines :
       norm = [done |-> FALSE, input |-> Query(i, c, u),
               output |-> Query(Undefined, Undefined, Undefined)]

NormalizeFront ==
  /\ ~norm.done
  /\ norm' = [norm EXCEPT !.done = TRUE,
                          !.output = normalizeChineseWorker(norm.input)]
  /\ UNCHANGED <<pipelineVars, cancelled, extractVars, normalizeVars,
                 clientVars, translatorVars, single, batch, worker, writes>>

NextFront == NormalizeFront

SpecFront == InitFront /\ [][NextFront]_vars


----------------------------------------------------------------------------
(* getRecipes of the worker: recipeTool.execute is called with the          *)
(* normalized input and, when it returns no recipe, once more with the      *)
(* limit alone.  The worker validates nothing: any numeric limit is passed  *)

\* variant: the empty result of the first call is answered as it is
NeedsFallbackNever(rs) == FALSE

\* if (recipes.length === 0)
NeedsFallback(rs) == rs = <<>>

\* execute from its first line to its first provider call
ExecuteStarts(ctx) ==
  /\ context' = ctx
  /\ caught' = FALSE
  /\ searchCalls' = <<>>
  /\ summaries' = <<>>
  /\ filterResp' = "none"
  /\ searchResp' = "none"
  /\ lookups' = <<>>
  /\ lookupResps' = <<>>
  /\ details' = <<>>
  /\ results' = <<>>
  /\ tries' = 0
  /\ randomGaveItem' = FALSE
  /\ randomAllThrew' = TRUE
  /\ recipes' = <<>>
  /\ via' = "none"
  /\ source' = "none"
  /\ outcome' = "none"
  /\ status' = 0
  /\ IF SelectKind(ctx) = "none"
     THEN pc' = "random" /\ filterCalls' = <<>>
     ELSE /\ pc' = "filter"
          /\ filterCalls' = <<[kind |-> SelectKind(ctx), term |-> FilterTerm(ctx)]>>

notWorkerVars ==
  <<extractVars, cancelled, normalizeVars, clientVars, translatorVars, single,
    batch, norm, writes>>

\* a request for /api/recipes reaches getRecipes, which calls execute
WorkerCalled(q, limit) ==
  /\ pc = "idle" /\ worker.phase = "idle"
  /\ entry' = "worker"
  /\ LET fields == normalizeChinese(q)
     IN ExecuteStarts([ingredients |-> fields.ingredients,
                       category |-> fields.category,
                       cuisine |-> fields.cuisine,
                       limit |-> Num(Coalesce(limit))])
  /\ worker' = [worker EXCEPT !.phase = "first", !.calls = 1]
  /\ UNCHANGED notWorkerVars

\* the first call has returned: the answer is built from its recipes, or
\* execute is called again with { limit: limitNum }
WorkerResumes ==
  /\ pc = "done" /\ worker.phase = "first"
  /\ UNCHANGED <<entry, notWorkerVars>>
  /\ IF outcome = "thrown"
     THEN /\ worker' = [worker EXCEPT !.phase = "answered", !.firstVia = via,
                                      !.status = 500]
          /\ UNCHANGED <<context, pc, caught, filterCalls, searchCalls,
                         summaries, filterResp, searchResp, lookups,
                         lookupResps, details, results, tries, randomGaveItem,
                         randomAllThrew, recipes, via, source, outcome, status>>
     ELSE IF NeedsFallback(recipes)
     THEN /\ worker' = [worker EXCEPT !.phase = "second", !.firstVia = via,
                                      !.calls = 2]
          /\ ExecuteStarts([ingredients |-> Undefined, category |-> Undefined,
                            cuisine |-> Undefined, limit |-> context.limit])
     ELSE /\ worker' = [worker EXCEPT !.phase = "answered", !.firstVia = via,
                                      !.recipes = recipes, !.status = 200]
          /\ UNCHANGED <<context, pc, caught, filterCalls, searchCalls,
                         summaries, filterResp, searchResp, lookups,
                         lookupResps, details, results, tries, randomGaveItem,
                         randomAllThrew, recipes, via, source, outcome, status>>

\* the second call has returned, or has thrown into the empty catch block
WorkerAnswers ==
  /\ pc = "done" /\ worker.phase = "second"
  /\ worker' = [worker EXCEPT !.phase = "answered",
                              !.recipes = IF outcome = "thrown" THEN <<>> ELSE recipes,
                              !.status = 200]
  /\ UNCHANGED <<pipelineVars, notWorkerVars>>

NextWorker ==
  \/ \E q \in Queries : \E l \in LimitsOf("http") : WorkerCalled(q, l)
  \/ \E resp \in ListResponses : FilterReturns(resp)
  \/ \E resp \in ListResponses : SearchReturns(resp)
  \/ \E resp \in LookupResponses : LookupReturns(resp)
  \/ \E resp \in RandomResponses(results) : RandomReturns(resp)
  \/ WorkerResumes
  \/ WorkerAnswers

SpecWorker == Init /\ [][NextWorker]_vars

----------------------------------------------------------------------------
(* Properties *)

\* the text has a character that is not a blank
NonBlank(x) == x.some /\ \E i \in 1..Len(x.val) : x.val[i] # " "

LimitInRange == context.limit.some /\ context.limit.val \in 1..10

Returned == pc = "done" /\ outcome = "ok"

IsEmptyAnswer(r) == r \in {"empty", "malformed"}

StageThrew ==
  filterResp = "throw" \/ searchResp = "throw" \/ "throw" \in Range(lookupResps)

\* C1: for every limit in 1..10, whatever the query and whatever the provider
\* answers, the result execute returns holds at most limit recipes.
C1_BoundedOutput ==
  (Returned /\ LimitInRange) => Len(recipes) <= context.limit.val

\* a filter result longer than the limit was cut down to exactly limit recipes
C1_Witness ==
  /\ Returned /\ LimitInRange /\ via = "filter"
  /\ Len(summaries) > context.limit.val
  /\ Len(recipes) = context.limit.val

\* C2: whichever filter kind is used, when the filter call and the
\* search-by-name call both answer with nothing, the random stage is entered,
\* and when the random endpoint returned at least one item the result
\* (limit in 1..10) is a non-empty list produced by the random stage.
C2_FallbackTotality ==
  (filterCalls # <<>> /\ IsEmptyAnswer(filterResp) /\ IsEmptyAnswer(searchResp))
    => /\ pc \in {"random", "done"}
       /\ pc = "done" => (outcome = "ok" /\ via = "random" /\ tries > 0)
       /\ (pc = "done" /\ randomGaveItem /\ LimitInRange) => recipes # <<>>

\* the cuisine filter and search-by-name were empty, random produced recipes
C2_Witness ==
  /\ Returned /\ Len(filterCalls) = 1 /\ filterCalls[1].kind = "cuisine"
  /\ filterResp = "empty" /\ searchResp = "empty"
  /\ randomGaveItem /\ recipes # <<>>

\* C3: execute never propagates an exception; when a filter call, the
\* search-by-name call or a detail lookup throws, control goes to the random
\* stage and the result is built from the random recipes (non-empty when the
\* random endpoint returned an item), also when random calls fail as well.
C3_DegradeOnThrow ==
  /\ outcome # "thrown"
  /\ StageThrew => (caught /\ pc \in {"random", "done"})
  /\ (StageThrew /\ pc = "done") =>
       /\ outcome = "ok" /\ via = "catch" /\ source = "TheMealDB"
       /\ Len(recipes) <= Len(results)
       /\ recipes = SubSeq(results, 1, Len(recipes))
       /\ (randomGaveItem /\ LimitInRange) => recipes # <<>>

\* a detail lookup threw after the filter succeeded, some random call gave
\* nothing new, and the result still carries random recipes
C3_Witness ==
  /\ Returned /\ "throw" \in Range(lookupResps)
  /\ tries > Len(results) /\ recipes # <<>>

\* C4: the fields are tried in the priority ingredient > category > cuisine
\* (a field counts as given when it has a non-blank character): at most one
\* filter endpoint is called; it is the ingredient filter whenever
\* ingredients is given, the category filter only when ingredients is not
\* given, the cuisine filter only when neither ingredients nor category is.
C4_Priority ==
  (pc # "idle" /\ outcome # "rejected") =>
    /\ Len(filterCalls) <= 1
    /\ \A i \in 1..Len(filterCalls) :
         LET k == filterCalls[i].kind
         IN /\ NonBlank(context.ingredients) => k = "ingredient"
            /\ k = "ingredient" => NonBlank(context.ingredients)
            /\ k = "category" =>
                 (~NonBlank(context.ingredients) /\ NonBlank(context.category))
            /\ k = "cuisine" =>
                 /\ ~NonBlank(context.ingredients)
                 /\ ~NonBlank(context.category)
                 /\ NonBlank(context.cuisine)
    /\ (NonBlank(context.ingredients) \/ NonBlank(context.category)
          \/ NonBlank(context.cuisine)) => filterCalls # <<>>

\* ingredients, category and cuisine all given: the ingredient filter ran
C4_Witness ==
  /\ pc = "done" /\ Len(filterCalls) = 1 /\ filterCalls[1].kind = "ingredient"
  /\ NonBlank(context.category) /\ NonBlank(context.cuisine)

\* C5: in every result produced through the filter path, the ids of the
\* returned recipes are pairwise distinct, whatever the filter returned.
C5_DistinctIds ==
  (Returned /\ via = "filter") =>
    \A i, j \in 1..Len(recipes) : i # j => recipes[i] # recipes[j]

\* the ids whose lookup found a detail, in the order of the lookups
RECURSIVE FoundIds(_, _)
FoundIds(asked, answers) ==
  IF asked = <<>> \/ answers = <<>> THEN <<>>
  ELSE (IF Head(answers) = "found" THEN <<Head(asked)>> ELSE <<>>)
         \o FoundIds(Tail(asked), Tail(answers))

\* C6: the ids looked up are always a prefix of the provider's list of k
\* summaries, never longer than min(k, limit); when the filter path returns,
\* exactly the first min(k, limit) ids were looked up in provider order and
\* the recipes are the found details in that order, source 'TheMealDB'.
C6_LookupOrder ==
  LET bound == Min(Len(summaries), Max(context.limit.val, 0))
  IN /\ Len(lookups) <= bound
     /\ lookups = SubSeq(summaries, 1, Len(lookups))
     /\ (Returned /\ via = "filter") =>
          /\ lookups = SubSeq(summaries, 1, bound)
          /\ Len(lookupResps) = Len(lookups)
          /\ recipes = FoundIds(lookups, lookupResps)
          /\ source = "TheMealDB"

\* two summaries, limit 1: only the id the provider listed first was looked
\* up, and its detail is the single recipe
C6_Witness ==
  /\ Returned /\ via = "filter"
  /\ summaries = <<2, 1>> /\ context.limit.val = 1
  /\ lookups = <<2>> /\ recipes = <<2>>

\* C7 as stated: when every random call throws, the failure reaches the
\* caller as a hard error.
C7_RandomFailurePropagates ==
  (pc = "done" /\ tries > 0 /\ randomAllThrew) => outcome = "thrown"

\* C7 amended: when every random call throws, randomSelection swallows each
\* error, gives up after 20 calls and returns an empty list; execute returns
\* normally with no recipes and source 'TheMealDB'.
C7_RandomFailureAbsorbed ==
  /\ (tries > 0 /\ randomAllThrew) => (outcome # "thrown" /\ results = <<>>)
  /\ (pc = "done" /\ tries > 0 /\ randomAllThrew) =>
       (outcome = "ok" /\ recipes = <<>> /\ source = "TheMealDB" /\ tries = 20)

\* the filter threw and then all 20 random calls threw
C7_Witness ==
  /\ pc = "done" /\ filterResp = "throw" /\ randomAllThrew /\ tries = 20

\* C8: randomSelection makes at most 20 calls to the random endpoint and,
\* whatever the endpoint answers, eventually returns normally.
C8_RandomTerminates ==
  /\ [](tries <= 20)
  /\ <>(pc = "done" /\ outcome = "ok")

\* 20 calls were used up and fewer recipes than requested were returned
C8_Witness ==
  Returned /\ tries = 20 /\ Len(recipes) < context.limit.val

\* C9: a limit outside [1,10] is rejected on every entry point before any
\* provider call is made, and the HTTP handler answers it with status 400.
C9_LimitRejected ==
  (pc # "idle" /\ context.limit.some /\ context.limit.val \notin 1..10) =>
    /\ outcome = "rejected"
    /\ filterCalls = <<>> /\ searchCalls = <<>> /\ lookups = <<>> /\ tries = 0
    /\ entry = "http" => status = 400

\* slots whose name has a non-blank character
KeptSlots == {i \in DOMAIN meal : NonBlank(meal[i].ingredient)}

\* the j-th kept slot in increasing slot order
KeptSlot(j) == CHOOSE i \in KeptSlots : Cardinality({k \in KeptSlots : k < i}) = j - 1

\* C10: extractIngredients outputs one pair per slot of 1..20 whose name is
\* not blank, in increasing slot order, each with the trimmed name and the
\* trimmed measure ("" when the measure is empty or absent); no output name
\* is empty or carries a leading or trailing blank.
C10_Extraction ==
  extracted =>
    /\ DOMAIN meal = 1..20
    /\ Len(items) = Cardinality(KeptSlots)
    /\ \A j \in 1..Len(items) :
         LET slot == meal[KeptSlot(j)]
         IN /\ items[j].ingredient = Trim(slot.ingredient.val)
            /\ items[j].measure =
                 (IF slot.measure.some THEN Trim(slot.measure.val) ELSE <<>>)
            /\ items[j].ingredient # <<>>
            /\ Head(items[j].ingredient) # " "
            /\ items[j].ingredient[Len(items[j].ingredient)] # " "

\* a blank-named slot was dropped and a later slot with a name and an empty
\* measure was kept, trimmed
C10_Witness ==
  /\ extracted
  /\ \E i, j \in 1..20 :
       /\ i < j
       /\ meal[i].ingredient = Str(<<" ">>) /\ meal[i].measure = Str(<<"m">>)
       /\ meal[j].ingredient = Str(<<" ", "p", " ">>)
  /\ items = <<[ingredient |-> <<"p">>, measure |-> <<>>]>>

\* positions where a comma-separated part of s starts, minus one
Cuts(s) == {0} \cup {i \in 1..Len(s) : s[i] = ","}

\* the part of s that follows cut c, up to the next comma or the end
PartAfter(s, c) ==
  LET ends == {d \in (c + 1)..(Len(s) + 1) : d = Len(s) + 1 \/ s[d] = ","}
      stop == CHOOSE d \in ends : \A e \in ends : d <= e
  IN SubSeq(s, c + 1, stop - 1)

\* the text between the first and the last non-blank character of p
Stripped(p) ==
  LET solid == {i \in 1..Len(p) : p[i] # " "}
  IN IF solid = {} THEN <<>>
     ELSE SubSeq(p, CHOOSE i \in solid : \A j \in solid : i <= j,
                    CHOOSE i \in solid : \A j \in solid : i >= j)

\* the mapped field of each raw field other than strTags
FieldPairs ==
  {<<"strCategory", "category">>, <<"strArea", "area">>,
   <<"strInstructions", "instructions">>, <<"strMealThumb", "thumbnail">>,
   <<"strYoutube", "youtube">>}

\* C11: the mapped recipe has tags = null when the detail has no tag string
\* (an empty tag string counts as none); a tag string with content is mapped
\* to the list of its comma-separated parts, each trimmed, the empty ones
\* dropped, in their order; every other optional field that is absent or
\* empty is mapped to null, never to the empty string, and is copied
\* otherwise.
C11_Normalization ==
  normalized.done =>
    LET r == normalized.recipe
        t == raw.strTags
        kept == {c \in Cuts(t.val) : Stripped(PartAfter(t.val, c)) # <<>>}
    IN /\ (~t.some \/ t.val = <<>>) => r.tags = Null
       /\ (t.some /\ t.val # <<>>) =>
            /\ r.tags.some
            /\ Len(r.tags.val) = Cardinality(kept)
            /\ \A c \in kept :
                 r.tags.val[Cardinality({d \in kept : d <= c})]
                   = Stripped(PartAfter(t.val, c))
       /\ \A p \in FieldPairs :
            /\ r[p[2]] # Str(<<>>)
            /\ (~raw[p[1]].some \/ raw[p[1]].val = <<>>) => r[p[2]] = Null
            /\ (raw[p[1]].some /\ raw[p[1]].val # <<>>) => r[p[2]] = raw[p[1]]

\* "a, b,,c" became [a, b, c] while an empty category and an absent video
\* url became null
C11_Witness ==
  /\ normalized.done
  /\ raw.strTags = Str(tTags)
  /\ normalized.recipe.tags = Str(<< <<"a">>, <<"b">>, <<"c">> >>)
  /\ raw.strCategory = Str(<<>>) /\ normalized.recipe.category = Null
  /\ raw.strYoutube = Null /\ normalized.recipe.youtube = Null

\* the provider reports no match, or the JSON body has no `meals` array
NoMeals(p) ==
  \/ p.t \in {"jsonnull", "nomeals", "mealsnull", "mealstext"}
  \/ (p.t = "list" /\ p.ids = <<>>)

EmptyList == [t |-> "return", val |-> Str(<<>>)]

\* C12 as stated: each of the four client functions returns the empty list,
\* never null and never an exception, when the provider reports no match or
\* the payload is malformed (no meals array, or a body that is not JSON).
C12_EmptyOnMalformed ==
  (reply.t # "none" /\ (NoMeals(request.payload) \/ request.payload.t = "notjson"))
    => reply = EmptyList

\* C12 amended: each of the four client functions returns the empty list,
\* never null, when the provider reports no match or the JSON body has no
\* meals array; a body that is not parseable JSON makes the function throw,
\* as a transport error does, and a returned value is never null.
C12_EmptyOnNoMeals ==
  reply.t # "none" =>
    /\ NoMeals(request.payload) => reply = EmptyList
    /\ request.payload.t \in {"notjson", "network"} => reply.t = "throw"
    /\ reply.t = "return" => reply.val.some

\* searchByName met a body that is not JSON and threw
C12_Witness ==
  /\ request.fn = "searchByName"
  /\ request.payload.t = "notjson"
  /\ reply.t = "throw"

Distinct(s) == \A i, j \in 1..Len(s) : s[i] = s[j] => i = j

\* C14 as stated: in the filter stage the provider is queried keyword by
\* keyword, the primary term first, the summaries of the calls are merged by
\* id in first-seen order, and no filter call is issued once the distinct
\* candidates reach the limit: the candidates execute holds after the stage
\* are pairwise distinct, and the first call carries the primary term.
C14_KeywordMerge ==
  filterResp \in {"list", "empty", "malformed"} =>
    /\ filterCalls[1].term = FilterTerm(context)
    /\ Distinct(summaries)
    /\ (Len(summaries) >= Coalesce(context.limit) => Len(filterCalls) = 1)

\* C17 as stated: when the caller cancels while an outbound call is in
\* flight the pipeline returns no result; the cancellation is never answered
\* with a result, degraded random or other.
C17_CancelObserved == (cancelled /\ pc = "done") => outcome # "ok"

\* C18: when none of ingredients, category and cuisine has a non-blank
\* character (absent, empty or blanks only), an accepted request makes no
\* filter, search-by-name or lookup call; it goes straight to the random
\* stage and returns the first min(limit, found) random recipes.
C18_NoFieldGoesRandom ==
  (pc # "idle" /\ outcome # "rejected" /\ ~NonBlank(context.ingredients)
     /\ ~NonBlank(context.category) /\ ~NonBlank(context.cuisine)) =>
    /\ filterCalls = <<>> /\ searchCalls = <<>> /\ lookups = <<>>
    /\ ~caught /\ pc \in {"random", "done"}
    /\ Returned =>
         /\ via = "random" /\ context.limit.some /\ context.limit.val >= 0
         /\ Len(recipes) = Min(context.limit.val, Len(results))
         /\ \A i \in 1..Len(recipes) : recipes[i] = results[i]

\* blank ingredients and cuisine, empty category: random recipes, no other call
C18_Witness ==
  /\ Returned /\ entry = "tool"
  /\ context.ingredients = Str(tBlank) /\ context.category = Str(<<>>)
  /\ filterCalls = <<>> /\ searchCalls = <<>> /\ lookups = <<>>
  /\ via = "random" /\ Len(recipes) = 2 /\ Len(results) > 2

\* C19: with a comma-separated ingredients text only its first item, trimmed,
\* is used: it is the term of the single ingredient filter call and, when
\* that call gives nothing, of the search-by-name call; no later item and no
\* comma reaches the provider.
C19_FirstItemOnly ==
  (filterCalls # <<>> /\ filterCalls[1].kind = "ingredient") =>
    LET first == Stripped(PartAfter(context.ingredients.val, 0))
    IN /\ Len(filterCalls) = 1 /\ Len(searchCalls) <= 1
       /\ filterCalls[1].term = first
       /\ \A i \in 1..Len(searchCalls) : searchCalls[i] = first
       /\ "," \notin Range(first)

\* " a,b": the filter call and the search-by-name call both carried "a"
C19_Witness ==
  /\ context.ingredients = Str(tAB)
  /\ filterCalls = <<[kind |-> "ingredient", term |-> <<"a">>]>>
  /\ filterResp = "empty"
  /\ searchCalls = << <<"a">> >>

\* C20: a request without a limit runs with limit 5 from every entry point
\* and on every path: at most 5 detail lookups are made and at most 5
\* recipes are returned.
C20_DefaultLimit ==
  pc # "idle" =>
    /\ outcome # "rejected"
    /\ context.limit = Num(5)
    /\ Len(lookups) <= 5
    /\ Returned => Len(recipes) <= 5

\* six summaries came back: five were looked up and five recipes returned
C20_Witness ==
  /\ Returned /\ via = "filter"
  /\ Len(summaries) = 6 /\ Len(lookups) = 5 /\ Len(recipes) = 5

Identity(e) == e.translated = e.original /\ e.relatedTerms = <<>>

\* a remote call made for the field has failed
SomeCallFailed(e) ==
  e.assoc \in {"throw", "status"}
    \/ \E i \in 1..Len(e.answers) : e.answers[i] \in {"throw", "status"}

Uncached(fn, kind, text, r) ==
  CASE fn = "translate" ->
         IF TranslateBegins(text, kind, apiKey, <<>>).state = "pending"
         THEN TranslationOf(text, r) ELSE text
    [] fn = "translateText" -> IF apiKey THEN TranslationOf(text, r) ELSE text
    [] fn = "generateRelatedTerms" ->
         IF Trim(text) = <<>> \/ ~apiKey THEN <<>> ELSE RelatedTermsOf(r)

\* C16 as stated: with a deterministic backend every call of a sequence of
\* translate and expansion calls, the caches being kept or cleared between
\* the calls, returns the value it returns on empty caches.
C16_CachePure ==
  last.fn # "none" => last.value = Uncached(last.fn, last.kind, last.text, last.answer)


\* every lookup call of the filter stage was answered, each with no detail
AllLookupsNull ==
  /\ lookupResps # <<>>
  /\ Len(lookupResps) = Len(LookupIds(summaries, context.limit))
  /\ \A i \in 1..Len(lookupResps) : lookupResps[i] = "null"

\* C21 as stated: a stage that yields zero results triggers the next
\* fallback stage; when the filter returns candidates and every detail
\* lookup returns null, the result comes from search-by-name or from the
\* random stage, and the empty list of the filter stage is not returned.
C21_EmptyLookupsFallBack ==
  (Returned /\ LimitInRange /\ filterResp = "list" /\ AllLookupsNull)
    => via \in {"search", "random"}


\* C22: after any sequence of random-endpoint responses the list held by
\* randomSelection has pairwise distinct, non-empty ids and at most 10
\* entries.
C22_RandomDistinct ==
  /\ Distinct(results)
  /\ NoId \notin Range(results)
  /\ Len(results) <= maxCount

\* the loop ended with 10 items after responses that were not pushed (a
\* throw, no meal, an empty id or an id already held)
C22_Witness ==
  /\ pc = "done" /\ Len(results) = maxCount
  /\ tries > maxCount
  /\ randomGaveItem /\ ~randomAllThrew


\* the filter call was made and returned an empty list
FilterGaveNothing == filterCalls # <<>> /\ IsEmptyAnswer(filterResp)

\* the first n elements of the list, in the order of the list
Prefix(ids, n) == [i \in 1..Min(Len(ids), n) |-> ids[i]]

\* C23: when the filter returns nothing and search-by-name returns a
\* non-empty list, execute returns at once the first limit search results in
\* provider order, with no lookup call and no random call; and, no call
\* having thrown, the random endpoint is called after an empty filter answer
\* only when search-by-name answered with nothing too.
C23_SearchShortCircuit ==
  /\ []((FilterGaveNothing /\ searchResp = "list")
          => (Returned /\ via = "search" /\ lookups = <<>> /\ tries = 0))
  /\ []((FilterGaveNothing /\ ~caught /\ tries > 0)
          => IsEmptyAnswer(searchResp))
  /\ [][\A resp \in ListResponses :
          (FilterGaveNothing /\ MealsOf(resp) # <<>> /\ SearchReturns(resp))
            => recipes' = Prefix(resp.ids, context.limit.val)]_vars

\* search-by-name answered an empty filter result with two records, which
\* were returned in the provider's order
C23_Witness ==
  /\ Returned /\ via = "search" /\ FilterGaveNothing
  /\ recipes = <<2, 1>>
  /\ lookups = <<>> /\ tries = 0


\* C24 as stated: the random stage stops calling the random endpoint as soon
\* as it holds min(limit, 10) unique items: while a random call is in flight
\* fewer than min(limit, 10) items have been collected.
C24_StopsAtLimit ==
  (pc = "random" /\ LimitInRange)
    => Len(results) < Min(context.limit.val, maxCount)


\* the last call was translate and met no key, a non-success status or a throw
TranslateDegraded ==
  last.fn = "translate" /\ (~apiKey \/ last.answer \in Failures)

\* C25: Translator.translate returns the original text unchanged when the
\* API key is missing (no remote call is made), when the backend answers
\* with a non-success status and when the call throws; nothing is written to
\* the cache in these cases, so a later call for the same text is sent to
\* the backend again.
C25_Passthrough ==
  /\ [](TranslateDegraded
          => /\ last.value = last.text
             /\ TranslateKey(last.kind, last.text) \notin DOMAIN cache
             /\ ~apiKey => (remoteCalls = 0 /\ cache = <<>>))
  /\ [][\A text \in CallTexts : \A lang \in Languages : \A r \in TranslateAnswers :
          (/\ TranslateDegraded /\ apiKey
           /\ last.text = text /\ last.kind = lang
           /\ TranslateCall(text, lang, r))
            => remoteCalls' = remoteCalls + 1]_vars

\* the same text was translated twice, the backend failed both times and was
\* contacted both times
C25_Witness ==
  /\ TranslateDegraded /\ apiKey
  /\ last.n = 2 /\ remoteCalls = 2
  /\ DOMAIN backend = {<<"translate", last.kind, last.text>>}
  /\ last.value = last.text /\ cache = <<>>


\* translate calls i and j of the Promise.all had the same key, both missed
\* the cache and both were answered: neither found the other's entry, so
\* each was begun before the other had returned
Raced(i, j) ==
  /\ i # j
  /\ flights[i].text = flights[j].text
  /\ flights[i].state = "done" /\ flights[i].answer = "content"
  /\ flights[j].state = "done" /\ flights[j].answer = "content"

\* the cache.set calls made for the key, in order
WritesOf(key) == SelectSeq(writes, LAMBDA w : w.key = key)

\* C26: two translate calls for the same (targetLanguage, text) key that run
\* concurrently and both miss the cache both complete with their translation
\* and neither fails; afterwards the cache holds the entry of the key, and
\* its value is the one written by the later of the writers.
C26_LastWriterWins ==
  /\ single.phase # "thrown"
  /\ \A i, j \in 1..Len(flights) :
       Raced(i, j) =>
         LET key == TranslateKey("zh-CN", flights[i].text)
             ws == WritesOf(key)
         IN /\ key \in DOMAIN cache
            /\ {i, j} \subseteq {ws[k].by : k \in 1..Len(ws)}
            /\ cache[key] = ws[Len(ws)].value
            /\ cache[key] = flights[ws[Len(ws)].by].value

\* name and category of a recipe had the same text; the two calls got
\* different translations, the category's answer came last and its value is
\* the one the cache holds
C26_Witness ==
  /\ single.phase = "returned" /\ Len(flights) = 3
  /\ Raced(1, 2)
  /\ flights[1].value # flights[2].value
  /\ Len(writes) >= 2
  /\ writes[Len(writes)].by = 2 /\ writes[Len(writes) - 1].by = 1
  /\ cache[TranslateKey("zh-CN", flights[1].text)] = flights[2].value


InFlight == {p \in 1..batch.n : batch.calls[p] = "pending"}

\* the batch of a recipe
BatchOf(p) == (p - 1) \div concurrencyLimit

\* C27: translateRecipes returns exactly one recipe per input recipe in input
\* order, never has more than 3 translateRecipe calls in flight at the same
\* time, and starts a batch only after every call of the previous batch has
\* completed; a recipe whose translation fails is returned untranslated in
\* its position.
C27_Batches ==
  /\ Cardinality(InFlight) <= 3
  /\ \A p, q \in 1..batch.n :
       (batch.calls[p] # "idle" /\ BatchOf(q) < BatchOf(p))
         => batch.calls[q] \notin {"idle", "pending"}
  /\ batch.phase = "returned" =>
       /\ Len(batch.results) = batch.n
       /\ \A p \in 1..batch.n :
            /\ batch.results[p].id = p
            /\ batch.calls[p] # "ok" => ~batch.results[p].translated
            /\ batch.calls[p] = "ok" => batch.results[p].translated

\* seven recipes went through three batches; the second recipe of the
\* second batch failed and came back untranslated between translated ones
C27_Witness ==
  /\ batch.phase = "returned" /\ batch.n = 7
  /\ batch.calls[5] = "throw" /\ ~batch.results[5].translated
  /\ batch.results[4].translated /\ batch.results[6].translated
  /\ batch.results[7].translated


\* C28 as stated: in normalizeChinese a category that categoryMap maps to
\* undefined (the two keys for "light", for which the provider has no
\* category) is skipped: the normalized category is undefined and the
\* normalized input selects no category filter.
C28_UnmappedSkipped ==
  (/\ norm.done
   /\ Given(norm.input.category)
   /\ Trim(norm.input.category.val) \in {tQingDan, tQingDanDe})
    => /\ norm.output.category = Undefined
       /\ SelectKind(norm.output) # "category"


\* the request carries none of ingredients, category and cuisine (a
\* parameter that is absent or the empty string)
NoSearchParameter(q) ==
  \A f \in Range(FieldNames) : (~q[f].some) \/ q[f].val = <<>>

\* no provider call was made and nothing was returned
NothingCalled ==
  /\ filterCalls = <<>> /\ searchCalls = <<>> /\ lookups = <<>> /\ tries = 0
  /\ recipes = <<>> /\ via = "none"

\* C29: the /api/recipes handler requires a search parameter besides limit:
\* a request that carries a limit and no ingredients, category or cuisine is
\* answered with status 400 and recipeTool.execute is not called for it;
\* every other request is handed to execute.
C29_LimitOnlyRejected ==
  /\ []((entry = "http" /\ outcome = "rejected")
          => (pc = "done" /\ status = 400 /\ NothingCalled))
  /\ [][\A q \in Queries : \A l \in LimitsOf("http") :
          Invoke("http", q, l) =>
            IF NoSearchParameter(q) /\ l.some
            THEN outcome' = "rejected" /\ status' = 400 /\ pc' = "done"
            ELSE outcome' = "none" /\ pc' \in {"filter", "random"}]_vars

\* a request with limit 3 and no search parameter was answered with 400
C29_Witness ==
  /\ entry = "http" /\ outcome = "rejected" /\ status = 400
  /\ NoSearchParameter(context) /\ context.limit = Num(3)
  /\ pc = "done" /\ NothingCalled


\* the call in progress was made with the limit alone and has taken the
\* random path
LimitAlone ==
  /\ ~context.ingredients.some /\ ~context.category.some /\ ~context.cuisine.some
  /\ context.limit.some
  /\ filterCalls = <<>> /\ searchCalls = <<>> /\ lookups = <<>>
  /\ ~caught

====
